---- MODULE Spec2Model ----
(***************************************************************************)
(* The supervisor channel of kernel/schemes/supervisor.rs:                 *)
(* SupervisorResource::new (the attach protocol, under the context-table   *)
(* lock) and the read and write of the two endpoints it creates, over two  *)
(* WaitQueue<Packet> held by Arc (reader) and Weak (writer).               *)
(***************************************************************************)
EXTENDS Integers, Sequences, FiniteSets, TLC

(* ------------------------------- bounds -------------------------------- *)

\* Longest queue a write may still be started on.
MaxQueue == 2

\* Channels that may ever be allocated (queues and endpoints are numbered by
\* channel); new() allocates one per successful attach.
MaxChannels == 3

(* ----------------------------- constants ------------------------------- *)

\* mem::size_of::<Packet>(), scaled down to two bytes.
PACKET_SIZE == 2

Bytes == {0, 1}

\* Execution threads (CPUs running some context).
Threads == {"t1", "t2"}

\* pids of the context table; pid 1 is the parent of 2 and 3.
Pids == {1, 2, 3}

\* A caller that has no context in the table.
NoContext == 0

\* The identities a caller of new() may run as.
Callers == {NoContext} \cup Pids

InitialPpid(p) == IF p = 1 THEN 0 ELSE 1

\* Option::None of supervised_resource (endpoint ids start at 1).
None == 0
NoThread == "nobody"

(* ------------------------------ results -------------------------------- *)

Ok(v) == [ok |-> TRUE, val |-> v]
Err(e) == [ok |-> FALSE, errno |-> e]

EACCES == "EACCES"
EEXIST == "EEXIST"
EINVAL == "EINVAL"
EPERM == "EPERM"
EPIPE == "EPIPE"

\* What contexts.current() and contexts.find_mut() fail with.
CurrentError == "ESRCH(current)"
FindError == "ESRCH(find_mut)"

NoRet == [op |-> "none"]

(* ------------------------------ packets -------------------------------- *)

Buffers(n) == [1..n -> Bytes]

\* Packet::default(): all zero.
PacketDefault == [i \in 1..PACKET_SIZE |-> 0]

\* A copy loop that stops one element early.
ZipCopyShort(dst, src) ==
    [i \in 1..Len(dst) |-> IF i < Len(src) THEN src[i] ELSE dst[i]]

\* for (d, s) in dst.iter_mut().zip(src.iter()) { *d = *s }
ZipCopy(dst, src) ==
    [i \in 1..Len(dst) |-> IF i <= Len(src) THEN src[i] ELSE dst[i]]

\* A size check that also lets shorter buffers through.
SizeOkAtMost(buf) == Len(buf) <= PACKET_SIZE

\* buf.len() == mem::size_of::<Packet>()
SizeOk(buf) == Len(buf) = PACKET_SIZE

\* A buffer of n bytes, all ones.
Ones(n) == [i \in 1..n |-> 1]

\* The well-sized buffers a caller hands to write: a single one in each
\* position, so that they differ from one another, from Packet::default() and
\* from an untouched read buffer, and so that a swap of bytes shows.
Payloads == {[i \in 1..PACKET_SIZE |-> IF i = k THEN 1 ELSE 0] : k \in 1..PACKET_SIZE}

\* Buffers one byte too short and one byte too long.
BadBuffers == {Ones(PACKET_SIZE - 1), Ones(PACKET_SIZE + 1)}

WriteBuffers == Payloads \cup BadBuffers

\* The buffers a caller hands to read: filled with ones, so that a copy shows.
ReadBuffers == {Ones(PACKET_SIZE)} \cup BadBuffers

(* ------------------------- queue and endpoint ids ---------------------- *)

RequestQ(ch) == 2 * ch - 1
ResponseQ(ch) == 2 * ch
EndpointA(ch) == 2 * ch - 1
EndpointB(ch) == 2 * ch
ChannelOf(e) == (e + 1) \div 2
Peer(e) == IF e % 2 = 1 THEN e + 1 ELSE e - 1

VARIABLES
    contexts,   \* the context table: pid -> [pid, ppid, supervised, supervised_resource]
    lock,       \* holder of ::env().contexts.lock(), or NoThread
    endpoints,  \* live SupervisorResource boxes: id -> [recv, send]
    queues,     \* live Arc<WaitQueue<Packet>>: id -> [strong, items]
    nextCh,     \* next fresh channel number
    threads,    \* per thread: where it is in new/read/write, and its locals
    ret,        \* what the step just taken returned to its caller, or NoRet
    attached,   \* history: per pid, how many calls of new() returned an endpoint
    written     \* history: per endpoint, the buffers whose write on it returned
                \* Ok and that no read has returned yet, oldest first

vars == <<contexts, lock, endpoints, queues, nextCh, threads, ret, attached, written>>

Idle == [pc |-> "idle", cur |-> NoContext, pid |-> 0, ch |-> 0, ep |-> 0,
         buf |-> <<>>, q |-> 0]

\* The table before any attach: the contexts of T may have opted in.
InitFor(T) ==
    /\ contexts \in {[p \in Pids |-> [pid |-> p,
                                      ppid |-> InitialPpid(p),
                                      supervised |-> p \in S,
                                      supervised_resource |-> None]]
                        : S \in SUBSET T}
    /\ lock = NoThread
    /\ endpoints = <<>>
    /\ queues = <<>>
    /\ nextCh = 1
    /\ threads = [t \in Threads |-> Idle]
    /\ ret = NoRet
    /\ attached = [p \in Pids |-> 0]
    /\ written = <<>>

(* ------------------------- function-map helpers ------------------------ *)

Put(f, k, v) == [x \in DOMAIN f \cup {k} |-> IF x = k THEN v ELSE f[x]]
Remove(f, k) == [x \in DOMAIN f \ {k} |-> f[x]]

(* ------------------------------ Arc / Weak ----------------------------- *)

\* Arc::new(WaitQueue::new()): one strong reference, no items.
ArcNew(qs, q) == Put(qs, q, [strong |-> 1, items |-> <<>>])

\* Arc::clone
ArcClone(qs, q) == [qs EXCEPT ![q].strong = @ + 1]

\* A drop whose last reference leaves the queue allocated.
ArcDropKeep(qs, q) == [qs EXCEPT ![q].strong = @ - 1]

\* Dropping a strong reference; the last one frees the queue and its items.
ArcDrop(qs, q) ==
    IF qs[q].strong = 1 THEN Remove(qs, q) ELSE [qs EXCEPT ![q].strong = @ - 1]

\* Weak::upgrade succeeds while a strong reference is left.
CanUpgrade(qs, q) == q \in DOMAIN qs

(* --------------------------- the context table ------------------------- *)

\* contexts.current(): the caller's own context, when it has one.
Current(ctxs, cur) ==
    IF cur \in DOMAIN ctxs THEN Ok(ctxs[cur]) ELSE Err(CurrentError)

\* contexts.find_mut(pid)
FindMut(ctxs, pid) ==
    IF pid \in DOMAIN ctxs THEN Ok(ctxs[pid]) ELSE Err(FindError)

\* A lock that is granted whoever holds it.
LockAlwaysGranted(holder) == TRUE

\* ::env().contexts.lock() is granted only while nobody holds it.
LockFree(holder) == holder = NoThread

\* A parent check that lets everybody through.
NotParentNever(ctx, cur_pid) == FALSE

\* ctx.ppid != cur_pid
NotParent(ctx, cur_pid) == ctx.ppid # cur_pid

\* An is_some() that never sees the endpoint already stored.
IsSomeNever(opt) == FALSE

\* ctx.supervised_resource.is_some()
IsSome(opt) == opt # None

\* An endpoint is used by one owner at a time (read and write take &mut self).
InUse(e) == \E t \in Threads : threads[t].pc \in {"receive", "send"} /\ threads[t].ep = e

\* Endpoint A is stored under the table lock: nobody reaches it before new()
\* has returned and released the lock.
UnderConstruction(e) ==
    \E t \in Threads : threads[t].pc = "return" /\ ChannelOf(e) = threads[t].ch

\* The endpoints a caller can read, write or drop.
Usable(e) == e \in DOMAIN endpoints /\ ~UnderConstruction(e) /\ ~InUse(e)

\* Endpoint e was created and has been dropped since.
Dropped(e) ==
    e \notin DOMAIN endpoints /\ ChannelOf(e) < nextCh /\ ~UnderConstruction(e)

\* Endpoint e is the one stored in some context's supervised_resource.
Installed(e) == \E p \in DOMAIN contexts : contexts[p].supervised_resource = e

\* A drop that also empties the queue the endpoint sends to.
DropBoxFlushesSend(eps, qs, e) ==
    IF e \in DOMAIN eps
    THEN LET released == ArcDrop(qs, eps[e].recv)
             send == eps[e].send
         IN  IF send \in DOMAIN released
             THEN [released EXCEPT ![send].items = <<>>]
             ELSE released
    ELSE qs

\* A drop that releases nothing, as when the peer held a strong reference to
\* the queue too.
DropBoxLeak(eps, qs, e) == qs

\* Dropping a Box<SupervisorResource>: its Arc (recv) is released, its Weak
\* (send) frees nothing.
DropBox(eps, qs, e) ==
    IF e \in DOMAIN eps THEN ArcDrop(qs, eps[e].recv) ELSE qs

(* ------------------------ SupervisorResource::new ---------------------- *)

Continue == [ok |-> TRUE, val |-> "install"]

\* The checks with the target looked up before the caller's own context.
NewChecksFindFirst(ctxs, cur, pid) ==
    LET current == Current(ctxs, cur)
        found == FindMut(ctxs, pid)
    IN  IF ~found.ok THEN found
        ELSE IF ~current.ok THEN current
        ELSE LET cur_pid == current.val.pid
                 ctx == found.val
             IN  IF ctx.supervised
                 THEN IF NotParent(ctx, cur_pid)
                      THEN Err(EACCES)
                      ELSE IF IsSome(ctx.supervised_resource)
                           THEN Err(EEXIST)
                           ELSE Continue
                 ELSE Err(EPERM)

\* The checks with the parent check made before the opt-in check.
NewChecksParentFirst(ctxs, cur, pid) ==
    LET current == Current(ctxs, cur)
        found == FindMut(ctxs, pid)
    IN  IF ~current.ok THEN current
        ELSE IF ~found.ok THEN found
        ELSE LET cur_pid == current.val.pid
                 ctx == found.val
             IN  IF NotParent(ctx, cur_pid)
                 THEN Err(EACCES)
                 ELSE IF ~ctx.supervised
                      THEN Err(EPERM)
                      ELSE IF IsSome(ctx.supervised_resource)
                           THEN Err(EEXIST)
                           ELSE Continue

\* Lines 25-35 and 51-54: the lookups and the permission checks. The result
\* is the error new() returns, or Continue when the channel is to be built.
NewChecks(ctxs, cur, pid) ==
    LET current == Current(ctxs, cur)
        found == FindMut(ctxs, pid)
    IN  IF ~current.ok THEN current
        ELSE IF ~found.ok THEN found
        ELSE LET cur_pid == current.val.pid
                 ctx == found.val
             IN  IF ctx.supervised
                 THEN IF NotParent(ctx, cur_pid)
                      THEN Err(EACCES)
                      ELSE IF IsSome(ctx.supervised_resource)
                           THEN Err(EEXIST)
                           ELSE Continue
                 ELSE Err(EPERM)

\* Line 24: the caller takes the context-table lock.
NewLock(t, cur, pid) ==
    /\ threads[t].pc = "idle"
    /\ LockFree(lock)
    /\ lock' = t
    /\ threads' = [threads EXCEPT ![t] = [Idle EXCEPT !.pc = "check", !.cur = cur, !.pid = pid]]
    /\ ret' = NoRet
    /\ UNCHANGED <<contexts, endpoints, queues, nextCh, attached, written>>

\* new() whose error returns leave the lock guard behind.
NewCheckKeepsLock(t) ==
    /\ threads[t].pc = "check"
    /\ LET th == threads[t]
           r == NewChecks(contexts, th.cur, th.pid)
       IN  IF r = Continue
           THEN /\ threads' = [threads EXCEPT ![t].pc = "install"]
                /\ ret' = NoRet
           ELSE /\ threads' = [threads EXCEPT ![t] = Idle]
                /\ ret' = [op |-> "new", cur |-> th.cur, pid |-> th.pid, val |-> r]
    /\ UNCHANGED <<lock, contexts, endpoints, queues, nextCh, attached, written>>

\* new() with ctx.supervised_resource.take().is_some() for the EEXIST check:
\* the refused attach empties the field and drops the endpoint stored in it.
NewCheckTake(t) ==
    /\ threads[t].pc = "check"
    /\ LET th == threads[t]
           r == NewChecks(contexts, th.cur, th.pid)
       IN  IF r = Continue
           THEN /\ threads' = [threads EXCEPT ![t].pc = "install"]
                /\ ret' = NoRet
                /\ UNCHANGED <<lock, contexts, endpoints, queues>>
           ELSE /\ threads' = [threads EXCEPT ![t] = Idle]
                /\ ret' = [op |-> "new", cur |-> th.cur, pid |-> th.pid, val |-> r]
                /\ lock' = NoThread
                /\ IF r = Err(EEXIST)
                   THEN LET old == contexts[th.pid].supervised_resource
                        IN  /\ contexts' = [contexts EXCEPT ![th.pid].supervised_resource = None]
                            /\ queues' = DropBox(endpoints, queues, old)
                            /\ endpoints' = Remove(endpoints, old)
                   ELSE UNCHANGED <<contexts, endpoints, queues>>
    /\ UNCHANGED <<nextCh, attached, written>>

\* Lines 25-35, 51-55: an error is returned (the lock guard is dropped on
\* return), or the caller goes on to build the channel.
NewCheck(t) ==
    /\ threads[t].pc = "check"
    /\ LET th == threads[t]
           r == NewChecks(contexts, th.cur, th.pid)
       IN  IF r = Continue
           THEN /\ threads' = [threads EXCEPT ![t].pc = "install"]
                /\ ret' = NoRet
                /\ UNCHANGED lock
           ELSE /\ threads' = [threads EXCEPT ![t] = Idle]
                /\ ret' = [op |-> "new", cur |-> th.cur, pid |-> th.pid, val |-> r]
                /\ lock' = NoThread
    /\ UNCHANGED <<contexts, endpoints, queues, nextCh, attached, written>>

\* Lines 37-43: the two queues are allocated (the locals request and response
\* hold them) and Endpoint A is stored in the target; a value it replaces is
\* dropped.
NewInstall(t) ==
    /\ threads[t].pc = "install"
    /\ nextCh <= MaxChannels
    /\ LET th == threads[t]
           ch == nextCh
           request == RequestQ(ch)
           response == ResponseQ(ch)
           old == contexts[th.pid].supervised_resource
           freed == DropBox(endpoints, queues, old)
           made == ArcNew(ArcNew(freed, request), response)
       IN  /\ th.pid \in DOMAIN contexts
           /\ queues' = ArcClone(made, response)
           /\ endpoints' = Put(Remove(endpoints, old), EndpointA(ch),
                               [recv |-> response, send |-> request])
           /\ contexts' = [contexts EXCEPT ![th.pid].supervised_resource = EndpointA(ch)]
           /\ threads' = [threads EXCEPT ![t].pc = "return", ![t].ch = ch]
    /\ nextCh' = nextCh + 1
    /\ ret' = NoRet
    /\ UNCHANGED <<lock, attached, written>>

\* new() that builds Endpoint B with its send on the request queue, the one
\* it reads itself.
NewReturnMiswired(t) ==
    /\ threads[t].pc = "return"
    /\ LET th == threads[t]
           request == RequestQ(th.ch)
           response == ResponseQ(th.ch)
           b == EndpointB(th.ch)
       IN  /\ queues' = ArcDrop(ArcDrop(ArcClone(queues, request), request), response)
           /\ endpoints' = Put(endpoints, b, [recv |-> request, send |-> request])
           /\ ret' = [op |-> "new", cur |-> th.cur, pid |-> th.pid, val |-> Ok(b)]
    /\ threads' = [threads EXCEPT ![t] = Idle]
    /\ lock' = NoThread
    /\ attached' = [attached EXCEPT ![threads[t].pid] = @ + 1]
    /\ written' = Put(Put(written, EndpointA(threads[t].ch), <<>>),
                      EndpointB(threads[t].ch), <<>>)
    /\ UNCHANGED <<contexts, nextCh>>

\* Lines 45-49, 55: Endpoint B is built and returned; the locals request and
\* response and the lock guard are dropped.
NewReturn(t) ==
    /\ threads[t].pc = "return"
    /\ LET th == threads[t]
           request == RequestQ(th.ch)
           response == ResponseQ(th.ch)
           b == EndpointB(th.ch)
       IN  /\ queues' = ArcDrop(ArcDrop(ArcClone(queues, request), request), response)
           /\ endpoints' = Put(endpoints, b, [recv |-> request, send |-> response])
           /\ ret' = [op |-> "new", cur |-> th.cur, pid |-> th.pid, val |-> Ok(b)]
    /\ threads' = [threads EXCEPT ![t] = Idle]
    /\ lock' = NoThread
    /\ attached' = [attached EXCEPT ![threads[t].pid] = @ + 1]
    /\ written' = Put(Put(written, EndpointA(threads[t].ch), <<>>),
                      EndpointB(threads[t].ch), <<>>)
    /\ UNCHANGED <<contexts, nextCh>>

(* ------------------------- Resource::read / write ---------------------- *)

\* Line 60 (and 68-71): the size check of read; a well-sized read goes on to
\* self.recv.receive().
Read(t, e, buf) ==
    /\ threads[t].pc = "idle"
    /\ Usable(e)
    /\ IF SizeOk(buf)
       THEN /\ threads' = [threads EXCEPT ![t] = [Idle EXCEPT !.pc = "receive", !.ep = e, !.buf = buf]]
            /\ ret' = NoRet
       ELSE /\ ret' = [op |-> "read", ep |-> e, val |-> Err(EINVAL), buf |-> buf]
            /\ UNCHANGED threads
    /\ UNCHANGED <<contexts, lock, endpoints, queues, nextCh, attached, written>>

\* A read that does not wait: on an empty queue it returns at once with a
\* default packet.
ReceiveNoWait(t) ==
    /\ threads[t].pc = "receive"
    /\ threads[t].ep \in DOMAIN endpoints
    /\ LET th == threads[t]
           q == endpoints[th.ep].recv
           packet == IF queues[q].items = <<>> THEN PacketDefault ELSE Head(queues[q].items)
       IN  /\ ret' = [op |-> "read", ep |-> th.ep, val |-> Ok(PACKET_SIZE),
                      buf |-> ZipCopy(th.buf, packet)]
           /\ queues' = [queues EXCEPT ![q].items = IF @ = <<>> THEN @ ELSE Tail(@)]
           /\ written' = [written EXCEPT ![Peer(th.ep)] = IF @ = <<>> THEN @ ELSE Tail(@)]
    /\ threads' = [threads EXCEPT ![t] = Idle]
    /\ UNCHANGED <<contexts, lock, endpoints, nextCh, attached>>

\* Lines 61-67: receive() returns the head of the recv queue once there is
\* one; it is copied into the buffer.
Receive(t) ==
    /\ threads[t].pc = "receive"
    /\ threads[t].ep \in DOMAIN endpoints
    /\ LET th == threads[t]
           q == endpoints[th.ep].recv
       IN  /\ queues[q].items # <<>>
           /\ LET packet == Head(queues[q].items)
              IN  ret' = [op |-> "read", ep |-> th.ep, val |-> Ok(PACKET_SIZE),
                          buf |-> ZipCopy(th.buf, packet)]
           /\ queues' = [queues EXCEPT ![q].items = Tail(@)]
           /\ written' = [written EXCEPT ![Peer(th.ep)] = IF @ = <<>> THEN @ ELSE Tail(@)]
    /\ threads' = [threads EXCEPT ![t] = Idle]
    /\ UNCHANGED <<contexts, lock, endpoints, nextCh, attached>>

\* A write that upgrades its Weak a second time before it sends.
WriteUpgradesTwice(t, e, buf) ==
    /\ threads[t].pc = "idle"
    /\ Usable(e)
    /\ LET q == endpoints[e].send
       IN  IF ~SizeOk(buf)
           THEN /\ ret' = [op |-> "write", ep |-> e, val |-> Err(EINVAL), buf |-> buf]
                /\ UNCHANGED <<threads, queues>>
           ELSE IF CanUpgrade(queues, q)
           THEN /\ Len(queues[q].items) < MaxQueue
                /\ queues' = ArcClone(ArcClone(queues, q), q)
                /\ threads' = [threads EXCEPT ![t] = [Idle EXCEPT !.pc = "send", !.ep = e, !.buf = buf, !.q = q]]
                /\ ret' = NoRet
           ELSE /\ ret' = [op |-> "write", ep |-> e, val |-> Err(EPIPE), buf |-> buf]
                /\ UNCHANGED <<threads, queues>>
    /\ UNCHANGED <<contexts, lock, endpoints, nextCh, attached, written>>

\* Lines 75-76 (and 88-96): the size check of write and self.send.upgrade().
Write(t, e, buf) ==
    /\ threads[t].pc = "idle"
    /\ Usable(e)
    /\ LET q == endpoints[e].send
       IN  IF ~SizeOk(buf)
           THEN /\ ret' = [op |-> "write", ep |-> e, val |-> Err(EINVAL), buf |-> buf]
                /\ UNCHANGED <<threads, queues>>
           ELSE IF CanUpgrade(queues, q)
           THEN /\ Len(queues[q].items) < MaxQueue
                /\ queues' = ArcClone(queues, q)
                /\ threads' = [threads EXCEPT ![t] = [Idle EXCEPT !.pc = "send", !.ep = e, !.buf = buf, !.q = q]]
                /\ ret' = NoRet
           ELSE /\ ret' = [op |-> "write", ep |-> e, val |-> Err(EPIPE), buf |-> buf]
                /\ UNCHANGED <<threads, queues>>
    /\ UNCHANGED <<contexts, lock, endpoints, nextCh, attached, written>>

\* A write that sends its packet twice.
SendTwice(t) ==
    /\ threads[t].pc = "send"
    /\ LET th == threads[t]
           q == th.q
           packet == ZipCopy(PacketDefault, th.buf)
       IN  /\ queues' = ArcDrop([queues EXCEPT ![q].items = Append(Append(@, packet), packet)], q)
           /\ ret' = [op |-> "write", ep |-> th.ep, val |-> Ok(PACKET_SIZE), buf |-> th.buf]
           /\ written' = [written EXCEPT ![th.ep] = Append(@, th.buf)]
    /\ threads' = [threads EXCEPT ![t] = Idle]
    /\ UNCHANGED <<contexts, lock, endpoints, nextCh, attached>>

\* A write that builds its packet and returns Ok without sending it.
SendNothing(t) ==
    /\ threads[t].pc = "send"
    /\ LET th == threads[t]
           q == th.q
       IN  /\ queues' = ArcDrop(queues, q)
           /\ ret' = [op |-> "write", ep |-> th.ep, val |-> Ok(PACKET_SIZE), buf |-> th.buf]
           /\ written' = [written EXCEPT ![th.ep] = Append(@, th.buf)]
    /\ threads' = [threads EXCEPT ![t] = Idle]
    /\ UNCHANGED <<contexts, lock, endpoints, nextCh, attached>>

\* A write that never releases the Arc it upgraded.
SendKeepsArc(t) ==
    /\ threads[t].pc = "send"
    /\ LET th == threads[t]
           q == th.q
           packet == ZipCopy(PacketDefault, th.buf)
       IN  /\ queues' = [queues EXCEPT ![q].items = Append(@, packet)]
           /\ ret' = [op |-> "write", ep |-> th.ep, val |-> Ok(PACKET_SIZE), buf |-> th.buf]
           /\ written' = [written EXCEPT ![th.ep] = Append(@, th.buf)]
    /\ threads' = [threads EXCEPT ![t] = Idle]
    /\ UNCHANGED <<contexts, lock, endpoints, nextCh, attached>>

\* Lines 78-86: the packet is built from the buffer and sent; the upgraded
\* Arc is dropped on return.
Send(t) ==
    /\ threads[t].pc = "send"
    /\ LET th == threads[t]
           q == th.q
           packet == ZipCopy(PacketDefault, th.buf)
       IN  /\ queues' = ArcDrop([queues EXCEPT ![q].items = Append(@, packet)], q)
           /\ ret' = [op |-> "write", ep |-> th.ep, val |-> Ok(PACKET_SIZE), buf |-> th.buf]
           /\ written' = [written EXCEPT ![th.ep] = Append(@, th.buf)]
    /\ threads' = [threads EXCEPT ![t] = Idle]
    /\ UNCHANGED <<contexts, lock, endpoints, nextCh, attached>>

(* ------------------------------ environment ---------------------------- *)

\* A close of the returned endpoint that also empties the field of the target
\* its peer is stored in.
DropEndpointDetaches(e) ==
    /\ Usable(e)
    /\ ~Installed(e)
    /\ queues' = DropBox(endpoints, queues, e)
    /\ endpoints' = Remove(endpoints, e)
    /\ contexts' = [p \in DOMAIN contexts |->
                       IF contexts[p].supervised_resource = Peer(e)
                       THEN [contexts[p] EXCEPT !.supervised_resource = None]
                       ELSE contexts[p]]
    /\ ret' = NoRet
    /\ UNCHANGED <<lock, nextCh, threads, attached, written>>

\* The holder of a returned endpoint closes it.
DropEndpoint(e) ==
    /\ Usable(e)
    /\ ~Installed(e)
    /\ queues' = DropBox(endpoints, queues, e)
    /\ endpoints' = Remove(endpoints, e)
    /\ ret' = NoRet
    /\ UNCHANGED <<contexts, lock, nextCh, threads, attached, written>>

\* Teardown of context p: its record leaves the table, and the endpoint
\* stored in it is dropped with it.
ContextExit(p) ==
    /\ LockFree(lock)
    /\ p \in DOMAIN contexts
    /\ LET e == contexts[p].supervised_resource
       IN  /\ ~InUse(e)
           /\ queues' = DropBox(endpoints, queues, e)
           /\ endpoints' = Remove(endpoints, e)
    /\ contexts' = Remove(contexts, p)
    /\ ret' = NoRet
    /\ UNCHANGED <<lock, nextCh, threads, attached, written>>

\* Context p opts in to, or out of, supervision.
SetSupervised(p, b) ==
    /\ LockFree(lock)
    /\ p \in DOMAIN contexts
    /\ contexts[p].supervised # b
    /\ contexts' = [contexts EXCEPT ![p].supervised = b]
    /\ ret' = NoRet
    /\ UNCHANGED <<lock, endpoints, queues, nextCh, threads, attached, written>>

(* ---------------------------- specification ---------------------------- *)

\* The steps of new(), for callers running as a context of C and naming a
\* pid of T.
NewStep(C, T) ==
    \/ \E t \in Threads, cur \in C, pid \in T : NewLock(t, cur, pid)
    \/ \E t \in Threads : NewCheck(t)
    \/ \E t \in Threads : NewInstall(t)
    \/ \E t \in Threads : NewReturn(t)

\* The steps of read and write on the live endpoints.
ResourceStep ==
    \/ \E t \in Threads, e \in DOMAIN endpoints, buf \in ReadBuffers : Read(t, e, buf)
    \/ \E t \in Threads : Receive(t)
    \/ \E t \in Threads, e \in DOMAIN endpoints, buf \in WriteBuffers : Write(t, e, buf)
    \/ \E t \in Threads : Send(t)

\* The whole system, for the targets T: new() by every caller identity on a
\* pid of T, read, write and drop of every endpoint, and the table's own
\* changes (teardown of a target, opting in and out).
System(T) ==
    \/ NewStep(Callers, T)
    \/ ResourceStep
    \/ \E e \in DOMAIN endpoints : DropEndpoint(e)
    \/ \E p \in T : ContextExit(p)
    \/ \E p \in T, b \in BOOLEAN : SetSupervised(p, b)

\* The child every caller names; pid 3 is a sibling that only calls.
Child == 2

Init == InitFor({Child})

Next == System({Child})

Spec == Init /\ [][Next]_vars

\* A call that is under way goes on: checks, install, return, the receive of
\* a packet that is there, the send after an upgrade. New calls and the
\* environment's steps are not forced.
Progress(t) == NewCheck(t) \/ NewInstall(t) \/ NewReturn(t) \/ Receive(t) \/ Send(t)

FairSpec == Spec /\ \A t \in Threads : WF_vars(Progress(t))

\* Two supervised children of pid 1, so that two channel pairs exist side by
\* side.
Pair == {2, 3}

\* The buffer a writer on endpoint e hands to write: the number of e in
\* binary, so that every packet tells which endpoint wrote it.
Tag(e) == [i \in 1..PACKET_SIZE |-> ((e - 1) \div (2 ^ (PACKET_SIZE - i))) % 2]

PairsInit == InitFor(Pair) /\ \A p \in Pair : contexts[p].supervised

\* The parent attaches to both children; every endpoint is read with a
\* well-sized buffer, written with its own tag, and the returned endpoints
\* may be dropped.
PairsNext ==
    \/ NewStep({1}, Pair)
    \/ \E t \in Threads, e \in DOMAIN endpoints : Read(t, e, Ones(PACKET_SIZE))
    \/ \E t \in Threads : Receive(t)
    \/ \E t \in Threads, e \in DOMAIN endpoints : Write(t, e, Tag(e))
    \/ \E t \in Threads : Send(t)
    \/ \E e \in DOMAIN endpoints : DropEndpoint(e)

PairsSpec == PairsInit /\ [][PairsNext]_vars

(* ------------------------------- claims -------------------------------- *)

\* The step in which thread t leaves the checks of new(): with an error
\* returned, or towards the install.
ChecksDone(t) == threads[t].pc = "check" /\ threads'[t].pc # "check"

\* The caller of t's new() resolves, and its target is in the table.
Resolves(t) == threads[t].cur \in DOMAIN contexts /\ threads[t].pid \in DOMAIN contexts

\* The result record of a new() that failed with e.
NewFailed(t, e) ==
    [op |-> "new", cur |-> threads[t].cur, pid |-> threads[t].pid, val |-> Err(e)]

\* The calls of new() on pid p that are past the checks and not yet returned.
Installing(p) == {t \in Threads : threads[t].pc \in {"install", "return"} /\ threads[t].pid = p}

\* The caller and the target of the new() that just returned are in the
\* table, the target has opted in and the caller is its parent.
EligibleReturn ==
    /\ ret.op = "new"
    /\ ret.cur \in DOMAIN contexts
    /\ ret.pid \in DOMAIN contexts
    /\ contexts[ret.pid].supervised
    /\ contexts[ret.pid].ppid = contexts[ret.cur].pid

\* C1: however the calls of new() on one pid interleave, at most one of them
\* ever returns an endpoint and at most one is past the checks at a time, so
\* the target's supervised_resource is installed at most once; a call by an
\* eligible caller (the parent of a supervised target) that does not return
\* the endpoint returns EEXIST, and then exactly one call has succeeded.
C1_AtMostOneAttach ==
    /\ \A p \in Pids : attached[p] + Cardinality(Installing(p)) <= 1
    /\ EligibleReturn =>
          /\ attached[ret.pid] = 1
          /\ ret.val.ok \/ ret.val = Err(EEXIST)
          /\ ret.val.ok => contexts[ret.pid].supervised_resource = Peer(ret.val.val)

\* An eligible caller was refused with EEXIST after the one success.
C1_Witness ==
    /\ EligibleReturn
    /\ ret.val = Err(EEXIST)
    /\ attached[ret.pid] = 1

\* C2: when the caller's context resolves and the target exists with
\* supervised = FALSE, new() returns EPERM, whoever the caller is and whether
\* or not supervised_resource is set.
C2_NotSupervisedIsEPERM ==
    [][\A t \in Threads :
          (ChecksDone(t) /\ Resolves(t) /\ ~contexts[threads[t].pid].supervised)
              => ret' = NewFailed(t, EPERM)]_vars

\* The parent itself was refused with EPERM on a target that holds an endpoint.
C2_Witness ==
    /\ ret.op = "new"
    /\ ret.val = Err(EPERM)
    /\ ret.pid \in DOMAIN contexts
    /\ ret.cur = contexts[ret.pid].ppid
    /\ contexts[ret.pid].supervised_resource # None

\* C3: when the target exists with supervised = TRUE and the caller's pid is
\* not the target's ppid, new() returns EACCES; and whenever new() returns an
\* endpoint the caller is the target's parent.
C3_NotParentIsEACCES ==
    [][/\ \A t \in Threads :
             (/\ ChecksDone(t)
              /\ Resolves(t)
              /\ contexts[threads[t].pid].supervised
              /\ contexts[threads[t].cur].pid # contexts[threads[t].pid].ppid)
                 => ret' = NewFailed(t, EACCES)
       /\ (ret'.op = "new" /\ ret'.val.ok) =>
             /\ ret'.cur \in DOMAIN contexts
             /\ contexts[ret'.cur].pid = contexts[ret'.pid].ppid]_vars

\* A sibling was refused with EACCES on a supervised target nobody is
\* attached to.
C3_Witness ==
    /\ ret.op = "new"
    /\ ret.val = Err(EACCES)
    /\ ret.cur \in DOMAIN contexts
    /\ contexts[ret.pid].supervised
    /\ contexts[ret.pid].supervised_resource = None

\* Both endpoints of the channel whose Endpoint A is a are alive and wired to
\* each other: each writes to the queue the other reads, and both queues live.
ChannelUsable(eps, qs, a) ==
    /\ {a, Peer(a)} \subseteq DOMAIN eps
    /\ eps[a].send = eps[Peer(a)].recv
    /\ eps[Peer(a)].send = eps[a].recv
    /\ CanUpgrade(qs, eps[a].send)
    /\ CanUpgrade(qs, eps[Peer(a)].send)

\* C4: once new() has returned an endpoint for a pid, a later new() on that
\* pid by its parent (the target still in the table and supervised) returns
\* EEXIST and changes nothing: the endpoint stored in the target, the endpoint
\* given to the first caller, their queues and the packets in them are as
\* before, so a channel that was usable still is.
C4_SecondAttachIsEEXIST ==
    [][\A t \in Threads :
          (/\ ChecksDone(t)
           /\ Resolves(t)
           /\ attached[threads[t].pid] >= 1
           /\ contexts[threads[t].pid].supervised
           /\ contexts[threads[t].cur].pid = contexts[threads[t].pid].ppid)
              => /\ ret' = NewFailed(t, EEXIST)
                 /\ UNCHANGED <<contexts, endpoints, queues, written>>
                 /\ contexts'[threads[t].pid].supervised_resource \in DOMAIN endpoints'
                 /\ LET a == contexts[threads[t].pid].supervised_resource
                    IN  ChannelUsable(endpoints, queues, a)
                           => ChannelUsable(endpoints', queues', a)]_vars

\* The parent was refused with EEXIST while both endpoints are alive and a
\* packet written before the refusal waits in the stored endpoint's queue.
C4_Witness ==
    /\ EligibleReturn
    /\ ret.val = Err(EEXIST)
    /\ LET a == contexts[ret.pid].supervised_resource
       IN  /\ ChannelUsable(endpoints, queues, a)
           /\ queues[endpoints[a].recv].items # <<>>
           /\ written[Peer(a)] = queues[endpoints[a].recv].items

\* C5: a new() that returns an error (no current context, target not found,
\* EPERM, EACCES, EEXIST) leaves the table as it was, record by record, and
\* leaves no queue or endpoint behind; it holds the lock no longer.
C5_FailedAttachChangesNothing ==
    [][(ret'.op = "new" /\ ~ret'.val.ok) =>
          /\ contexts' = contexts
          /\ DOMAIN queues' = DOMAIN queues
          /\ UNCHANGED <<endpoints, queues, nextCh, attached>>
          /\ lock' = NoThread
          /\ ret'.val.errno \in {CurrentError, FindError, EPERM, EACCES, EEXIST}]_vars

\* new() failed to find a target that had been attached to and has exited,
\* while the endpoint once returned for it is still held.
C5_Witness ==
    /\ ret.op = "new"
    /\ ret.val = Err(FindError)
    /\ attached[ret.pid] = 1
    /\ endpoints # <<>>

\* The step in which t's read returns from receive().
ReceiveDone(t) == threads[t].pc = "receive" /\ threads'[t].pc = "idle"

\* The step in which t's write returns after its send.
SendDone(t) == threads[t].pc = "send" /\ threads'[t].pc = "idle"

\* The step in which t's write passes the size check and the upgrade.
Upgrades(t) == threads[t].pc = "idle" /\ threads'[t].pc = "send"

\* A read or write returned without leaving the thread's state: it came back
\* at once, from the size check or the failed upgrade.
ReturnsAtOnce(op) == ret'.op = op /\ threads' = threads

\* The items of the queue endpoint e reads.
RecvItems(eps, qs, e) == qs[eps[e].recv].items

\* C6: a buffer of PACKET_SIZE bytes written on one endpoint of a channel is
\* put, byte for byte, at the tail of the queue the other endpoint reads, and
\* the write returns PACKET_SIZE; a read returns PACKET_SIZE and fills its
\* buffer with the bytes of the packet at the head of its queue. This holds
\* for Endpoint B to Endpoint A and for Endpoint A to Endpoint B alike.
C6_RoundTrip ==
    [][\A t \in Threads :
          /\ (SendDone(t) /\ Peer(threads[t].ep) \in DOMAIN endpoints) =>
                /\ RecvItems(endpoints', queues', Peer(threads[t].ep))
                      = Append(RecvItems(endpoints, queues, Peer(threads[t].ep)), threads[t].buf)
                /\ ret' = [op |-> "write", ep |-> threads[t].ep,
                           val |-> Ok(PACKET_SIZE), buf |-> threads[t].buf]
          /\ ReceiveDone(t) =>
                /\ RecvItems(endpoints, queues, threads[t].ep) # <<>>
                /\ ret' = [op |-> "read", ep |-> threads[t].ep, val |-> Ok(PACKET_SIZE),
                           buf |-> Head(RecvItems(endpoints, queues, threads[t].ep))]
                /\ ret'.buf = Head(written[Peer(threads[t].ep)])]_vars

\* A read on the endpoint stored in the target returned a payload written on
\* the returned endpoint, while a payload written on the stored endpoint
\* waits for the returned endpoint's read.
C6_Witness ==
    /\ ret.op = "read"
    /\ ret.val = Ok(PACKET_SIZE)
    /\ ret.buf \in Payloads
    /\ Installed(ret.ep)
    /\ Peer(ret.ep) \in DOMAIN endpoints
    /\ RecvItems(endpoints, queues, Peer(ret.ep)) # <<>>
    /\ RecvItems(endpoints, queues, Peer(ret.ep)) = written[ret.ep]

C8_WriteAfterDropIsEPIPE ==
    [][/\ \A t \in Threads : Upgrades(t) => ~Dropped(Peer(threads'[t].ep))
       /\ (/\ ReturnsAtOnce("write")
           /\ Len(ret'.buf) = PACKET_SIZE
           /\ Dropped(Peer(ret'.ep))) =>
             /\ ret'.val = Err(EPIPE)
             /\ UNCHANGED <<queues, written>>]_vars

\* A write on the returned endpoint was refused with EPIPE after the target's
\* teardown dropped the stored endpoint.
C8_Witness ==
    /\ ret.op = "write"
    /\ ret.val = Err(EPIPE)
    /\ ret.ep \in DOMAIN endpoints
    /\ ~Installed(ret.ep)
    /\ Dropped(Peer(ret.ep))

\* C9: in each direction the reading endpoint's queue holds exactly the
\* buffers whose writes have returned and that no read has returned yet, in
\* the order the writes returned, whatever reads and writes of the other
\* direction run in between; a read returns the oldest of them and leaves the
\* next oldest at the head.
C9_FifoPerDirection ==
    [][/\ \A e \in DOMAIN endpoints' :
             Peer(e) \in DOMAIN written' => RecvItems(endpoints', queues', e) = written'[Peer(e)]
       /\ \A t \in Threads :
             ReceiveDone(t) =>
                LET before == written[Peer(threads[t].ep)]
                IN  /\ before # <<>>
                    /\ ret'.buf = before[1]
                    /\ Len(before) >= 2 =>
                          Head(RecvItems(endpoints', queues', threads[t].ep)) = before[2]]_vars

\* A read returned the first of two different payloads; the second is now at
\* the head of the queue.
C9_Witness ==
    /\ ret.op = "read"
    /\ ret.val.ok
    /\ ret.ep \in DOMAIN endpoints
    /\ Len(RecvItems(endpoints, queues, ret.ep)) = 1
    /\ Head(RecvItems(endpoints, queues, ret.ep)) # ret.buf

\* Thread t waits in receive() on an endpoint whose peer has been dropped.
WaitsOnDeadPeer(t) == threads[t].pc = "receive" /\ Dropped(Peer(threads[t].ep))

\* C10: a read on an endpoint whose peer has been dropped, before the read or
\* while it waits, does not wait for ever: it eventually returns.
C10_ReadEndsAfterPeerDrop ==
    \A t \in Threads : WaitsOnDeadPeer(t) ~> (threads[t].pc # "receive")

\* The queue endpoint e reads: the response queue for Endpoint A, the request
\* queue for Endpoint B.
RecvQ(e) == IF e = EndpointA(ChannelOf(e)) THEN ResponseQ(ChannelOf(e)) ELSE RequestQ(ChannelOf(e))

\* Sequence s is a prefix of sequence u.
IsPrefix(s, u) == Len(s) <= Len(u) /\ SubSeq(u, 1, Len(s)) = s

\* C11: once the reading endpoint r of a queue has been dropped it stays
\* dropped; its queue is gone as soon as no write that upgraded before the
\* drop is under way, and never comes back, whatever new() does later; the
\* buffers written to r and not read are never handed to a reader; no write
\* on the peer passes the upgrade, and every such write with a PACKET_SIZE
\* buffer returns EPIPE.
C11_BrokenPipeIsTerminal ==
    [][\A r \in DOMAIN written :
          Dropped(r) =>
             /\ Dropped(r)'
             /\ RecvQ(r) \notin DOMAIN queues => RecvQ(r) \notin DOMAIN queues'
             /\ (~InUse(Peer(r)))' => RecvQ(r) \notin DOMAIN queues'
             /\ \A e \in DOMAIN endpoints' : endpoints'[e].recv # RecvQ(r)
             /\ IsPrefix(written[Peer(r)], written'[Peer(r)])
             /\ \A t \in Threads : ~(Upgrades(t) /\ threads'[t].ep = Peer(r))
             /\ (ReturnsAtOnce("write") /\ ret'.ep = Peer(r) /\ SizeOk(ret'.buf)) =>
                   ret'.val = Err(EPIPE)]_vars

\* A write on the stored endpoint was refused with EPIPE after the returned
\* endpoint was dropped; a buffer written earlier on the stored endpoint was
\* discarded unread with the queue.
C11_Witness ==
    /\ ret.op = "write"
    /\ ret.val = Err(EPIPE)
    /\ Installed(ret.ep)
    /\ Dropped(Peer(ret.ep))
    /\ written[ret.ep] # <<>>
    /\ RecvQ(Peer(ret.ep)) \notin DOMAIN queues

\* The endpoints whose recv field is queue q.
Readers(q) == {e \in DOMAIN endpoints : endpoints[e].recv = q}

\* The writes that hold the Arc they upgraded from their Weak to queue q.
Senders(q) == {t \in Threads : threads[t].pc = "send" /\ threads[t].q = q}

\* The calls of new() whose locals request and response still hold queue q.
Builders(q) ==
    {t \in Threads : threads[t].pc = "return"
                        /\ q \in {RequestQ(threads[t].ch), ResponseQ(threads[t].ch)}}

\* C12, as stated: in every state each queue has exactly one strong
\* reference, held by the one endpoint that reads it, and a queue exists
\* exactly as long as that endpoint; the writing side holds a Weak only.
\* This fails inside new() and inside a write that has upgraded.
C12_OneStrongOwnerAlways ==
    /\ \A q \in DOMAIN queues : queues[q].strong = 1 /\ Cardinality(Readers(q)) = 1
    /\ \A e \in DOMAIN endpoints :
          endpoints[e].recv \in DOMAIN queues /\ endpoints[e].send # endpoints[e].recv

\* C12, amended: each queue has at most one endpoint that reads it, and its
\* strong references are that endpoint's recv plus call-local ones only: the
\* locals of a new() that has not returned, and the Arc of a write between
\* its upgrade and its return (at most one per queue). A queue lives while
\* its reading endpoint lives, and beyond it only until such a write returns.
\* An endpoint's send is a Weak to the queue its peer reads, never to its own.
C12_OwnershipWithTemporaries ==
    /\ \A q \in DOMAIN queues :
          /\ Cardinality(Readers(q)) <= 1
          /\ Cardinality(Senders(q)) <= 1
          /\ queues[q].strong
                = Cardinality(Readers(q)) + Cardinality(Senders(q)) + Cardinality(Builders(q))
          /\ queues[q].strong >= 1
    /\ \A e \in DOMAIN endpoints :
          /\ endpoints[e].recv = RecvQ(e)
          /\ endpoints[e].recv \in DOMAIN queues
          /\ endpoints[e].send = RecvQ(Peer(e))

\* A queue outlives its reading endpoint: the endpoint was dropped after the
\* peer's write upgraded, and that write's Arc is the only reference left.
C12_Witness ==
    \E t \in Threads :
        /\ threads[t].pc = "send"
        /\ Dropped(Peer(threads[t].ep))
        /\ threads[t].q \in DOMAIN queues
        /\ queues[threads[t].q].strong = 1
        /\ Readers(threads[t].q) = {}

\* Thread t is inside new(): between taking the lock and returning.
InNew(t) == threads[t].pc \in {"check", "install", "return"}

\* Thread t waits in receive() on an empty queue.
Blocked(t) ==
    /\ threads[t].pc = "receive"
    /\ RecvItems(endpoints, queues, threads[t].ep) = <<>>

\* C13: the context-table lock is held exactly by the thread that is inside
\* new(), so never by a thread in receive() or in send(); it is free when
\* new() has returned, with an endpoint or with any error; and a new() under
\* way can always take its next step, and one can start whenever the lock is
\* free, whoever waits in receive().
C13_LockOnlyInsideAttach ==
    /\ \A t \in Threads : (lock = t) <=> InNew(t)
    /\ \A t \in Threads : threads[t].pc \in {"receive", "send"} => lock # t
    /\ ret.op = "new" => lock = NoThread
    /\ \A t \in Threads :
          /\ threads[t].pc = "check" => ENABLED NewCheck(t)
          /\ threads[t].pc = "install" => ENABLED NewInstall(t)
          /\ threads[t].pc = "return" => ENABLED NewReturn(t)
          /\ (threads[t].pc = "idle" /\ lock = NoThread) =>
                \A cur \in Callers : ENABLED NewLock(t, cur, Child)

\* A new() returned, and the lock is free again, while the other thread
\* waits in receive() on an empty queue.
C13_Witness ==
    /\ ret.op = "new"
    /\ lock = NoThread
    /\ \E t \in Threads : Blocked(t)

\* The step in which t's read passes the size check and enters receive().
EntersReceive(t) == threads[t].pc = "idle" /\ threads'[t].pc = "receive"

\* C14: a read with a PACKET_SIZE buffer returns Ok only out of receive(),
\* and only by taking the one packet at the head of the queue its own
\* endpoint reads: that queue loses its head and nothing else, every other
\* queue (the one the endpoint sends to included) and every endpoint stay as
\* they were. While that queue is empty the reader stays in receive(). The
\* entry into receive() changes no queue.
C14_ReadTakesHeadOfOwnQueue ==
    [][/\ \A t \in Threads :
             /\ ReceiveDone(t) =>
                   LET e == threads[t].ep
                       q == endpoints[e].recv
                   IN  /\ queues[q].items # <<>>
                       /\ queues' = [queues EXCEPT ![q].items = Tail(@)]
                       /\ q # endpoints[e].send
                       /\ endpoints' = endpoints
                       /\ ret' = [op |-> "read", ep |-> e, val |-> Ok(PACKET_SIZE),
                                  buf |-> Head(queues[q].items)]
             /\ Blocked(t) => threads'[t] = threads[t]
             /\ EntersReceive(t) => UNCHANGED <<queues, endpoints, written>>
       /\ (ret'.op = "read" /\ ret'.val.ok) =>
             \E t \in Threads : ReceiveDone(t) /\ threads[t].ep = ret'.ep]_vars

\* A read on the returned endpoint took the only packet of its queue, while
\* the queue that endpoint sends to holds a packet still.
C14_Witness ==
    /\ ret.op = "read"
    /\ ret.val = Ok(PACKET_SIZE)
    /\ ret.ep \in DOMAIN endpoints
    /\ ~Installed(ret.ep)
    /\ RecvItems(endpoints, queues, ret.ep) = <<>>
    /\ Peer(ret.ep) \in DOMAIN endpoints
    /\ RecvItems(endpoints, queues, Peer(ret.ep)) # <<>>

\* Thread t waits in receive() while a write on the peer of its endpoint has
\* returned Ok with a buffer no read has returned yet.
OwedPacket(t) ==
    /\ threads[t].pc = "receive"
    /\ Peer(threads[t].ep) \in DOMAIN written
    /\ written[Peer(threads[t].ep)] # <<>>

\* C15: under weak fairness of the calls under way, a read that waits in
\* receive() while a write on the peer has returned Ok and is unread comes to
\* return; and a write that has upgraded comes to return, whatever the
\* reader does: send() does not wait.
C15_DeliveryIsLive ==
    \A t \in Threads :
        /\ OwedPacket(t) ~> (threads[t].pc = "idle" /\ ret.op = "read" /\ ret.val = Ok(PACKET_SIZE))
        /\ (threads[t].pc = "send") ~> (threads[t].pc = "idle")

\* A reader that waited on an empty queue is owed the packet of a write that
\* has just returned.
C15_Witness ==
    /\ ret.op = "write"
    /\ ret.val = Ok(PACKET_SIZE)
    /\ \E t \in Threads :
          /\ OwedPacket(t)
          /\ threads[t].ep = Peer(ret.ep)
          /\ written[ret.ep] = <<ret.buf>>

\* C16: a write with a PACKET_SIZE buffer is one attempt. Either its one
\* upgrade succeeds, taking one strong reference and changing no items, and
\* then its one send puts exactly one packet, the whole buffer, at the tail
\* of the queue the peer reads, gives the reference back and returns
\* PACKET_SIZE; or the upgrade fails, and it returns EPIPE at once with every
\* queue as it was. Every other queue, the writer's own recv queue included,
\* is left alone, and the thread is idle after the return: nothing is retried.
C16_WriteIsOneAttempt ==
    [][/\ \A t \in Threads :
             /\ Upgrades(t) =>
                   LET q == endpoints[threads'[t].ep].send
                   IN  /\ threads'[t].q = q
                       /\ q = RecvQ(Peer(threads'[t].ep))
                       /\ queues' = [queues EXCEPT ![q].strong = @ + 1]
             /\ SendDone(t) =>
                   LET q == threads[t].q
                       sent == [queues EXCEPT ![q].items = Append(@, threads[t].buf)]
                   IN  /\ ret' = [op |-> "write", ep |-> threads[t].ep,
                                  val |-> Ok(PACKET_SIZE), buf |-> threads[t].buf]
                       /\ q # RecvQ(threads[t].ep)
                       /\ queues' = IF queues[q].strong = 1
                                    THEN Remove(sent, q)
                                    ELSE [sent EXCEPT ![q].strong = @ - 1]
                       /\ queues[q].strong = 1 => Dropped(Peer(threads[t].ep))
                       /\ threads'[t] = Idle
       /\ (ReturnsAtOnce("write") /\ SizeOk(ret'.buf)) =>
             /\ ret'.val = Err(EPIPE)
             /\ ~CanUpgrade(queues, endpoints[ret'.ep].send)
             /\ UNCHANGED <<queues, endpoints, written>>
       /\ (ret'.op = "write" /\ ret'.val.ok) =>
             \E t \in Threads : SendDone(t) /\ threads[t].ep = ret'.ep]_vars

\* A write on the stored endpoint returned PACKET_SIZE: the queue of the
\* returned endpoint holds that one packet, and the writer's own queue still
\* holds the packet that was there.
C16_Witness ==
    /\ ret.op = "write"
    /\ ret.val = Ok(PACKET_SIZE)
    /\ Installed(ret.ep)
    /\ Peer(ret.ep) \in DOMAIN endpoints
    /\ RecvItems(endpoints, queues, Peer(ret.ep)) = <<ret.buf>>
    /\ Len(RecvItems(endpoints, queues, ret.ep)) = 1
    /\ queues[endpoints[ret.ep].recv].strong = 1
    /\ queues[endpoints[ret.ep].send].strong = 1

\* The failure conditions of new() for caller cur and target pid, each on its
\* own; the later ones are read only where the lookups they need succeed.
NoCurrent(cur) == cur \notin DOMAIN contexts
NoTarget(pid) == pid \notin DOMAIN contexts
NotOptedIn(pid) == ~contexts[pid].supervised
CallerNotParent(cur, pid) == contexts[pid].ppid # contexts[cur].pid
AlreadyAttached(pid) == contexts[pid].supervised_resource # None

\* The error the earliest failing check of new() gives, or "none".
FirstFailure(cur, pid) ==
    CASE NoCurrent(cur) -> CurrentError
      [] ~NoCurrent(cur) /\ NoTarget(pid) -> FindError
      [] OTHER ->
           IF NotOptedIn(pid) THEN EPERM
           ELSE IF CallerNotParent(cur, pid) THEN EACCES
           ELSE IF AlreadyAttached(pid) THEN EEXIST
           ELSE "none"

\* C17: new() returns the error of the first check that fails, in the order
\* current-context lookup, target lookup, EPERM, EACCES, EEXIST, whatever
\* later checks would fail too; it goes on to build the channel only when
\* none fails, and it returns an endpoint only then.
C17_ChecksInFixedOrder ==
    [][\A t \in Threads :
          ChecksDone(t) =>
             LET first == FirstFailure(threads[t].cur, threads[t].pid)
             IN  IF first = "none"
                 THEN threads'[t].pc = "install" /\ ret' = NoRet
                 ELSE threads'[t].pc = "idle" /\ ret' = NewFailed(t, first)]_vars

\* new() returned EPERM to a caller that is not the parent, on a target that
\* holds an endpoint already: EACCES and EEXIST would have applied as well.
C17_Witness ==
    /\ ret.op = "new"
    /\ ret.val = Err(EPERM)
    /\ ret.cur \in DOMAIN contexts
    /\ ret.pid \in DOMAIN contexts
    /\ CallerNotParent(ret.cur, ret.pid)
    /\ AlreadyAttached(ret.pid)

\* C18: a supervised_resource that is set is never emptied or replaced while
\* its record is in the table: not by read, write or new(), and not by the
\* drop of the endpoint that was returned. So a target that was attached to
\* keeps its stored endpoint, and every later new() on it by its parent,
\* while it is supervised, returns EEXIST, also after the returned endpoint
\* has been dropped.
C18_AttachIsNeverUndone ==
    [][/\ \A p \in DOMAIN contexts :
             (AlreadyAttached(p) /\ p \in DOMAIN contexts') =>
                contexts'[p].supervised_resource = contexts[p].supervised_resource
       /\ \A p \in DOMAIN contexts' :
             attached'[p] >= 1 =>
                /\ contexts'[p].supervised_resource # None
                /\ contexts'[p].supervised_resource \in DOMAIN endpoints'
       /\ \A t \in Threads :
             (/\ ChecksDone(t)
              /\ Resolves(t)
              /\ ~NotOptedIn(threads[t].pid)
              /\ ~CallerNotParent(threads[t].cur, threads[t].pid)
              /\ attached[threads[t].pid] >= 1)
                 => ret' = NewFailed(t, EEXIST)]_vars

\* The parent was refused with EEXIST after it had dropped the endpoint it
\* was given: the target still holds the other one.
C18_Witness ==
    /\ EligibleReturn
    /\ ret.val = Err(EEXIST)
    /\ contexts[ret.pid].supervised_resource \in DOMAIN endpoints
    /\ Dropped(Peer(contexts[ret.pid].supervised_resource))

\* C19: with two channel pairs side by side and every packet tagged with the
\* endpoint that wrote it, the queue an endpoint reads holds only packets
\* written on its peer, as many as writes on the peer have returned and no
\* read has returned yet; a read returns the oldest of them, which is then
\* no longer owed to any read, and changes no other queue; so no packet is
\* made up, returned twice, returned to its writer, or found in a queue of
\* the other pair.
C19_NoStrayPackets ==
    [][/\ \A e \in DOMAIN endpoints' :
             Peer(e) \in DOMAIN written' =>
                LET items == RecvItems(endpoints', queues', e)
                IN  /\ \A i \in 1..Len(items) : items[i] = Tag(Peer(e))
                    /\ items = written'[Peer(e)]
       /\ \A t \in Threads :
             /\ ReceiveDone(t) =>
                   LET e == threads[t].ep
                       owed == written[Peer(e)]
                   IN  /\ owed # <<>>
                       /\ ret'.buf = Head(owed)
                       /\ ret'.buf = Tag(Peer(e))
                       /\ ret'.buf # Tag(e)
                       /\ written' = [written EXCEPT ![Peer(e)] = Tail(owed)]
                       /\ \A q \in DOMAIN queues :
                             q # endpoints[e].recv => (q \in DOMAIN queues' /\ queues'[q] = queues[q])
             /\ SendDone(t) =>
                   /\ threads[t].buf = Tag(threads[t].ep)
                   /\ written' = [written EXCEPT ![threads[t].ep] = Append(@, Tag(threads[t].ep))]]_vars

\* A read on one pair returned its peer's packet while a packet of the other
\* pair, with another tag, waits in a queue of that pair.
C19_Witness ==
    /\ ret.op = "read"
    /\ ret.val = Ok(PACKET_SIZE)
    /\ ret.buf = Tag(Peer(ret.ep))
    /\ \E e \in DOMAIN endpoints :
          /\ ChannelOf(e) # ChannelOf(ret.ep)
          /\ RecvItems(endpoints, queues, e) # <<>>
          /\ Head(RecvItems(endpoints, queues, e)) # ret.buf

\* The step in which endpoint e is dropped.
DropStep(e) == e \in DOMAIN endpoints /\ e \notin DOMAIN endpoints'

\* C20: the drop of an endpoint releases the queue that endpoint reads and
\* touches nothing else: every other queue, the one its peer reads included,
\* keeps its items and its count, every other endpoint and every call under
\* way stay as they were; so the buffers written on the dropped endpoint and
\* not yet read are still in the peer's queue, in order, and the peer's reads
\* after the drop return them oldest first.
C20_DropTouchesOwnQueueOnly ==
    [][/\ \A e \in DOMAIN endpoints :
             DropStep(e) =>
                LET own == endpoints[e].recv
                IN  /\ \A q \in DOMAIN queues \ {own} :
                          q \in DOMAIN queues' /\ queues'[q] = queues[q]
                    /\ own \in DOMAIN queues' =>
                          /\ queues'[own].items = queues[own].items
                          /\ queues'[own].strong = queues[own].strong - 1
                    /\ \A o \in DOMAIN endpoints \ {e} :
                          o \in DOMAIN endpoints' /\ endpoints'[o] = endpoints[o]
                    /\ UNCHANGED <<threads, written, attached>>
                    /\ Peer(e) \in DOMAIN endpoints =>
                          RecvItems(endpoints', queues', Peer(e)) = written[e]
       /\ \A t \in Threads :
             (ReceiveDone(t) /\ Dropped(Peer(threads[t].ep))) =>
                LET left == written[Peer(threads[t].ep)]
                IN  /\ left # <<>>
                    /\ ret' = [op |-> "read", ep |-> threads[t].ep,
                               val |-> Ok(PACKET_SIZE), buf |-> Head(left)]
                    /\ RecvItems(endpoints', queues', threads[t].ep) = Tail(left)
                    /\ Dropped(Peer(threads[t].ep))']_vars

\* After its peer was dropped, a read on the surviving endpoint returned the
\* older of two packets the peer had written; the younger one is still there.
C20_Witness ==
    /\ ret.op = "read"
    /\ ret.val = Ok(PACKET_SIZE)
    /\ ret.ep \in DOMAIN endpoints
    /\ Dropped(Peer(ret.ep))
    /\ Len(RecvItems(endpoints, queues, ret.ep)) = 1
    /\ RecvItems(endpoints, queues, ret.ep) = written[Peer(ret.ep)]
    /\ ~CanUpgrade(queues, endpoints[ret.ep].send)

====
